---- MODULE Spec2Model ----
(***************************************************************************)
(* Model of the useQuickAuth hook (src/roy/hooks/useQuickAuth.ts).         *)
(*                                                                         *)
(* The hook holds AuthState {token, userData, isLoading}, two refs         *)
(* (addressRef, hasAutoSignedIn) and reads the wallet connector's          *)
(* {address, isConnected}.  signIn is an async function: every await is a  *)
(* suspension point, so one invocation is a small process whose position   *)
(* (pc) and locals are one element of the bag inv; several may be in flight.*)
(***************************************************************************)
EXTENDS Integers, Sequences, FiniteSets, Bags, TLC

\* ---------------------------------------------------------------- bounds
\* Number of signIn invocations that may be in flight at the same time.
MaxInFlight == 2

\* Polls of one polling loop that are interleaved one by one with every other
\* event; the polls after them run back to back (no other event in between).
MaxInterleavedPolls == 0

\* ------------------------------------------------------ program constants
\* while (!currentAddress && attempts < 100)
MaxPollAttempts == 100

\* ------------------------------------------------------------ value sets
Null == "null"            \* null / undefined reference
Undef == "undefined"      \* a field missing from an object

WalletAddresses == {"0xA"}                \* addresses the wallet can expose
HostSignature == "hostSig"                \* signature of sdk.actions.signIn
WalletSignature == "walletSig"            \* signature of signMessageAsync

\* JSON bodies the backend can answer with on a 2xx status.
Responses ==
  { [token |-> Undef,  fid |-> Undef,   address |-> Undef],
    [token |-> "tokS", fid |-> "fid42", address |-> "0xS"] }

\* ----------------------------------------------------------------- state
VARIABLES
  authState,        \* useState<AuthState>
  isMiniapp,        \* isFarcasterMiniapp(), fixed for the mount
  appKitOpen,       \* whether appKit?.open is available, fixed for the mount
  address,          \* useAccount().address
  isConnected,      \* useAccount().isConnected
  addressRef,       \* addressRef.current
  hasAutoSignedIn,  \* hasAutoSignedIn.current
  effectPending,    \* the auto sign-in effect is scheduled (mount or token change)
  inv,              \* bag of the signIn invocations in flight: position and locals
  lastOp,           \* history: the operation that produced this state
  hist,             \* history: signIn settlements since the last signOut (see Settled)
  lastAuto          \* history: the latest auto-invoked signIn: none, inflight, ok, rejected

vars == <<authState, isMiniapp, appKitOpen, address, isConnected, addressRef,
          hasAutoSignedIn, effectPending, inv, lastOp, hist, lastAuto>>

\* userData: null | { fid?, address?, ...response fields }.  The object form
\* carries set = TRUE; a field the object does not have is Undef.
NullUserData == [set |-> FALSE, fid |-> Undef, address |-> Undef, token |-> Undef]

InitialAuthState == [token |-> Null, userData |-> NullUserData, isLoading |-> FALSE]

\* Locals of one signIn invocation, before its first statement.  The last
\* three fields are history: how the embedded path failed, signature requests
\* made, backend verification calls made.
IdleRec ==
  [pc |-> "start", auto |-> FALSE, isConnected |-> FALSE, walletAddress |-> Null,
   currentAddress |-> Null, attempts |-> 0, embErr |-> "none",
   signRequests |-> 0, backendCalls |-> 0]

NoData == [token |-> Undef, fid |-> Undef, address |-> Undef]

\* lastOp of a step that is no start or settlement of signIn and no signOut.
\* op is the kind of step (step, start, poll, resolve, reject, signOut; poll is
\* a timer of the polling loop after which signIn leaves the loop with an
\* address); opened:
\* the step called appKit.open(); auto: the effect made the call.  For a
\* settlement: from is the await the invocation was suspended at, input the
\* external result it was resumed with, err the error thrown, embErr how its
\* embedded path had failed, attempts the polls it made in the loop it was in,
\* signRequests and backendCalls its counts; for a resolve also address, its
\* currentAddress, walletAddress, its walletAddress, and data, the body of the
\* 2xx response.  disconnect: signOut called disconnect().
StepOp ==
  [op |-> "step", from |-> "none", input |-> "none", err |-> "none", auto |-> FALSE,
   embErr |-> "none", attempts |-> 0, signRequests |-> 0, backendCalls |-> 0,
   address |-> Null, walletAddress |-> Null, data |-> NoData,
   opened |-> FALSE, disconnect |-> FALSE]

InFlight == BagToSet(inv)
AnyInFlight == InFlight # {}
MayStart == BagCardinality(inv) < MaxInFlight

\* isAuthenticated of the hook's return value.
isAuthenticated ==
  IF isMiniapp THEN authState.token # Null
               ELSE isConnected /\ authState.token # Null

\* ------------------------------------------------- signIn: pure results
\* setAuthState of the embedded path (token: signature, userData: {fid, address}).
EmbeddedAuthState(signature, walletAddress, data) ==
  [token |-> signature,
   userData |-> [set |-> TRUE,
                 fid |-> data.fid,
                 address |-> IF walletAddress # Null THEN walletAddress ELSE data.address,
                 token |-> Undef],
   isLoading |-> FALSE]

\* Faulty variant of BrowserToken: no fallback to the signature.
BrowserTokenNoFallback(data, signature) ==
  IF data.token # Undef THEN data.token ELSE Null

\* const token = data.token || signature
BrowserToken(data, signature) ==
  IF data.token # Undef THEN data.token ELSE signature

\* userData: { address: currentAddress, ...data }
BrowserUserData(currentAddress, data) ==
  [set |-> TRUE,
   fid |-> data.fid,
   address |-> IF data.address # Undef THEN data.address ELSE currentAddress,
   token |-> data.token]

\* Faulty variant of BrowserAuthState: a token already held is not replaced.
BrowserAuthStateFirstWins(currentAddress, signature, data) ==
  [token |-> IF authState.token # Null THEN authState.token
                                       ELSE BrowserToken(data, signature),
   userData |-> IF authState.token # Null THEN authState.userData
                                          ELSE BrowserUserData(currentAddress, data),
   isLoading |-> FALSE]

\* setAuthState of the wallet-connector path.
BrowserAuthState(currentAddress, signature, data) ==
  [token |-> BrowserToken(data, signature),
   userData |-> BrowserUserData(currentAddress, data),
   isLoading |-> FALSE]

\* Faulty variant of LoadingAuthState: isLoading is not raised.
LoadingAuthStateSkipped(prev) == prev

\* setAuthState((prev) => ({ ...prev, isLoading: true }))
LoadingAuthState(prev) == [prev EXCEPT !.isLoading = TRUE]

\* Faulty variants of CatchAuthState: the catch clears the whole state; the
\* catch leaves isLoading as it is.
CatchAuthStateReset(prev) == InitialAuthState
CatchAuthStateSkipped(prev) == prev

\* catch (error) of signIn: setAuthState((prev) => ({ ...prev, isLoading: false })).
CatchAuthState(prev) == [prev EXCEPT !.isLoading = FALSE]

\* Faulty variant of SignOutAuthState: userData is kept.
SignOutAuthStateKeepsUserData ==
  [token |-> Null, userData |-> authState.userData, isLoading |-> FALSE]

\* Faulty variant of SignOutAuthState: isLoading is kept.
SignOutAuthStateKeepsLoading ==
  [token |-> Null, userData |-> NullUserData, isLoading |-> authState.isLoading]

\* signOut: setAuthState({ token: null, userData: null, isLoading: false })
SignOutAuthState == [token |-> Null, userData |-> NullUserData, isLoading |-> FALSE]

\* ------------------------------------------- signIn: outcomes of a segment
\* A segment of signIn (the code between two awaits) either suspends at the
\* next await (cont), returns (resolve) or throws out of signIn (reject).
Cont(r) ==
  [kind |-> "cont", rec |-> r, err |-> "none", auth |-> InitialAuthState, opened |-> FALSE]
Resolve(r, a) ==
  [kind |-> "resolve", rec |-> r, err |-> "none", auth |-> a, opened |-> FALSE]
Reject(r, e) ==
  [kind |-> "reject", rec |-> r, err |-> e, auth |-> InitialAuthState, opened |-> FALSE]

\* if (!currentAddress) throw ...; then signMessageAsync({ message }) is awaited.
\* attempts is out of scope here.
RequestSignature(r) ==
  IF r.currentAddress = Null
    THEN Reject(r, "AddressNotAvailable")
    ELSE Cont([r EXCEPT !.pc = "sign", !.attempts = 0,
                        !.signRequests = r.signRequests + 1])

\* Faulty variant of PollTest: attempts <= 100.
PollTestOffByOne(r) ==
  IF r.currentAddress = Null /\ r.attempts <= MaxPollAttempts
    THEN Cont([r EXCEPT !.pc = "poll"])
    ELSE IF r.currentAddress = Null
           THEN Reject(r, "WalletConnectionFailed")
           ELSE RequestSignature(r)

\* The test of the polling loop and the code after the loop: wait for the next
\* timer, give up, or go on with the address.
PollTest(r) ==
  IF r.currentAddress = Null /\ r.attempts < MaxPollAttempts
    THEN Cont([r EXCEPT !.pc = "poll"])
    ELSE IF r.currentAddress = Null
           THEN Reject(r, "WalletConnectionFailed")
           ELSE RequestSignature(r)

\* The wallet-connector path up to its first await: read addressRef, open the
\* connector UI when not connected, enter the polling loop.  The embedded
\* path's walletAddress is out of scope here, and the captured isConnected is
\* not read again after this test.
ConnectorPath(r0) ==
  LET r == [r0 EXCEPT !.pc = "connector", !.currentAddress = addressRef,
                      !.walletAddress = Null, !.isConnected = FALSE] IN
  IF ~r0.isConnected \/ r.currentAddress = Null
    THEN IF appKitOpen
           THEN [PollTest([r EXCEPT !.attempts = 0]) EXCEPT !.opened = TRUE]
           ELSE Reject(r, "WalletNotAvailable")
    ELSE RequestSignature(r)

\* Faulty variant of PollStep: attempts is not incremented.
PollStepNoCount(r) ==
  PollTest([r EXCEPT !.currentAddress = addressRef])

\* Faulty variant of PollStep: the loop does not read addressRef.current again.
PollStepStale(r) ==
  PollTest([r EXCEPT !.attempts = r.attempts + 1])

\* One turn of the polling loop, run when the 100 ms timer fires.
PollStep(r) ==
  PollTest([r EXCEPT !.currentAddress = addressRef, !.attempts = r.attempts + 1])

\* n turns of the polling loop with no other event in between (addressRef
\* keeps its value), or as many as the loop makes: the first half of the
\* turns, then, if the loop is still running, the rest.
RECURSIVE PollRun(_, _)
PollRun(r, n) ==
  IF n <= 1
    THEN PollStep(r)
    ELSE CHOOSE out \in UNION { IF half.kind # "cont" \/ half.rec.pc # "poll"
                                  THEN {half}
                                  ELSE {PollRun(half.rec, n - (n \div 2))}
                                : half \in {PollRun(r, n \div 2)} } : TRUE

\* catch (miniappError): log and continue with the wallet-connector path.
Fallback(r, e) == ConnectorPath([r EXCEPT !.embErr = e])

\* signIn() up to its first await: the embedded path awaits
\* sdk.ethereum.request, the browser goes straight to the connector path.
FirstSegment(r) ==
  IF isMiniapp THEN Cont([r EXCEPT !.pc = "accounts"]) ELSE ConnectorPath(r)

\* After await sdk.ethereum.request(...): accounts[0], or null when the list is
\* empty or the request threw; then generateNonce() and sdk.actions.signIn.
AfterAccounts(r, a) == Cont([r EXCEPT !.pc = "hostSignIn", !.walletAddress = a])

\* After await sdk.actions.signIn(...): issue the fetch, or fall back.
AfterHostSignIn(r, res) ==
  IF res = "ok"
    THEN Cont([r EXCEPT !.pc = "embFetch", !.backendCalls = r.backendCalls + 1])
    ELSE Fallback(r, "signIn")

\* Faulty variant of EmbeddedVerified: the success does not return and goes on
\* into the wallet-connector path.
EmbeddedVerifiedFallsThrough(r, status, data) ==
  CASE status = "ok" -> ConnectorPath(r)
    [] status = "non2xx" -> Fallback(r, "non2xx")
    [] OTHER -> Fallback(r, "threw")

\* Faulty variant of EmbeddedVerified: the embedded non-2xx error reaches the
\* caller.
EmbeddedVerifiedRethrows(r, status, data) ==
  CASE status = "ok" -> Resolve(r, EmbeddedAuthState(HostSignature, r.walletAddress, data))
    [] status = "non2xx" -> Reject(r, "AuthenticationFailed")
    [] OTHER -> Fallback(r, "threw")

\* After the embedded path's fetch and response.json(): set the state and
\* return, or fall back on a non-2xx status or an exception.
EmbeddedVerified(r, status, data) ==
  CASE status = "ok" -> Resolve(r, EmbeddedAuthState(HostSignature, r.walletAddress, data))
    [] status = "non2xx" -> Fallback(r, "non2xx")
    [] OTHER -> Fallback(r, "threw")

\* After await signMessageAsync(...): issue the fetch, or rethrow.
AfterSignature(r, res) ==
  IF res = "ok"
    THEN Cont([r EXCEPT !.pc = "fetch", !.backendCalls = r.backendCalls + 1])
    ELSE Reject(r, "SignatureRejected")

\* Faulty variants of BrowserVerified: response.ok is not tested; the host
\* signature is used after a fallback.
BrowserVerifiedNoStatusCheck(r, status, data) ==
  CASE status = "threw" -> Reject(r, "Threw")
    [] OTHER -> Resolve(r, BrowserAuthState(r.currentAddress, WalletSignature, data))

BrowserVerifiedHostSignature(r, status, data) ==
  CASE status = "ok" ->
         Resolve(r, BrowserAuthState(r.currentAddress,
                                     IF r.embErr = "none" THEN WalletSignature
                                                          ELSE HostSignature,
                                     data))
    [] status = "non2xx" -> Reject(r, "AuthenticationFailed")
    [] OTHER -> Reject(r, "Threw")

\* After the connector path's fetch and response.json().
BrowserVerified(r, status, data) ==
  CASE status = "ok" -> Resolve(r, BrowserAuthState(r.currentAddress, WalletSignature, data))
    [] status = "non2xx" -> Reject(r, "AuthenticationFailed")
    [] OTHER -> Reject(r, "Threw")

\* ------------------------------------------------------- state changes
\* hist after a settlement: "none" no signIn has resolved since the last
\* signOut (or since mount); "ok" one has, and no signIn has rejected after the
\* latest of them; "fail" one has, and a signIn has rejected after it.
Settled(h, kind) ==
  CASE kind = "resolve" -> "ok"
    [] kind = "reject" -> IF h = "none" THEN "none" ELSE "fail"
    [] OTHER -> h

\* Faulty variant of AutoCatch: any rejected signIn clears the flag.
AutoCatchAny(r, flag) == FALSE

\* The .catch handler of the auto sign-in effect, run when an auto-invoked
\* signIn rejects: hasAutoSignedIn.current = false.
AutoCatch(r, flag) == IF r.auto THEN FALSE ELSE flag

\* Apply the outcome `out` of a segment of the invocation that was at `r`
\* (IdleRec for a new one) on the external result `input` (with body `data`).
\* `prev` is AuthState as left by the segment's earlier updates, `flag` the
\* guard flag likewise.
Commit(r, out, prev, flag, input, data) ==
  /\ inv' = (IF r = IdleRec THEN inv ELSE inv (-) SetToBag({r}))
               (+) (IF out.kind = "cont" THEN SetToBag({out.rec}) ELSE EmptyBag)
  /\ authState' = CASE out.kind = "cont" -> prev
                     [] out.kind = "resolve" -> out.auth
                     [] OTHER -> CatchAuthState(prev)
  /\ hasAutoSignedIn' = IF out.kind = "reject" THEN AutoCatch(out.rec, flag) ELSE flag
  /\ lastOp' = CASE out.kind # "cont" ->
                       [op |-> out.kind, from |-> r.pc, input |-> input, err |-> out.err,
                        auto |-> out.rec.auto, embErr |-> out.rec.embErr,
                        attempts |-> out.rec.attempts,
                        signRequests |-> out.rec.signRequests,
                        backendCalls |-> out.rec.backendCalls,
                        address |-> IF out.kind = "resolve"
                                      THEN out.rec.currentAddress ELSE Null,
                        walletAddress |-> IF out.kind = "resolve"
                                            THEN out.rec.walletAddress ELSE Null,
                        data |-> IF out.kind = "resolve" THEN data ELSE NoData,
                        opened |-> out.opened, disconnect |-> FALSE]
                  [] out.kind = "cont" /\ r = IdleRec ->
                       [StepOp EXCEPT !.op = "start", !.auto = out.rec.auto,
                                      !.opened = out.opened]
                  [] out.kind = "cont" /\ r.pc = "poll" /\ out.rec.pc = "sign" ->
                       [StepOp EXCEPT !.op = "poll"]
                  [] OTHER -> [StepOp EXCEPT !.opened = out.opened]
  /\ hist' = Settled(hist, out.kind)
  /\ lastAuto' = CASE out.kind = "cont" /\ r = IdleRec /\ out.rec.auto -> "inflight"
                    [] out.kind = "resolve" /\ out.rec.auto -> "ok"
                    [] out.kind = "reject" /\ out.rec.auto -> "rejected"
                    [] OTHER -> lastAuto

\* The auto sign-in effect has deps [isMiniapp, authState.token]: a render with
\* a changed token schedules it.
Reschedule == effectPending' = (effectPending \/ authState'.token # authState.token)

Wallet == <<isMiniapp, appKitOpen, address, isConnected, addressRef>>

\* React runs the effects a render has scheduled before the next event (a call
\* from the caller, a continuation of signIn, a connector update) is handled.
EffectsFlushed == ~effectPending /\ addressRef = address

\* ------------------------------------------------------------- signIn
\* A call of signIn, up to its first await.
Begin(auto) ==
  \E out \in {FirstSegment([IdleRec EXCEPT !.auto = auto, !.isConnected = isConnected])} :
    Commit(IdleRec, out, LoadingAuthState(authState),
           IF auto THEN TRUE ELSE hasAutoSignedIn, "call", NoData)

\* The caller invokes signIn.
SignIn ==
  /\ EffectsFlushed
  /\ MayStart
  /\ Begin(FALSE)
  /\ Reschedule
  /\ UNCHANGED Wallet

\* The auto sign-in effect, run after mount and after a change of the token.
AutoSignInEffect ==
  /\ effectPending
  /\ IF isMiniapp /\ ~hasAutoSignedIn /\ authState.token = Null
       THEN /\ MayStart
            /\ Begin(TRUE)
       ELSE /\ lastOp' = StepOp
            /\ UNCHANGED <<authState, hasAutoSignedIn, inv, hist, lastAuto>>
  /\ effectPending' = FALSE
  /\ UNCHANGED Wallet

\* A later segment of the invocation at r, producing outcome `out`.
Resume(r, out, input, data) ==
  /\ EffectsFlushed
  /\ \E o \in {out} : Commit(r, o, authState, hasAutoSignedIn, input, data)
  /\ Reschedule
  /\ UNCHANGED Wallet

\* await sdk.ethereum.request({ method: 'eth_requestAccounts' }) settles.
AccountsReturn(r) ==
  /\ r.pc = "accounts"
  /\ \E a \in WalletAddresses \cup {Null} :
       Resume(r, AfterAccounts(r, a), "ok", NoData)

\* await sdk.actions.signIn(...) settles.
HostSignInReturn(r) ==
  /\ r.pc = "hostSignIn"
  /\ \E res \in {"ok", "threw"} :
       Resume(r, AfterHostSignIn(r, res), res, NoData)

\* await fetch(...) and await response.json() of the embedded path settle:
\* a 2xx with its body, a non-2xx, or one of the two threw.
EmbFetchReturn(r) ==
  /\ r.pc = "embFetch"
  /\ \/ \E data \in Responses : Resume(r, EmbeddedVerified(r, "ok", data), "ok", data)
     \/ \E status \in {"non2xx", "threw"} :
          Resume(r, EmbeddedVerified(r, status, NoData), status, NoData)

\* The 100 ms timer of the polling loop fires.
PollTick(r) ==
  /\ r.pc = "poll"
  /\ Resume(r, PollRun(r, IF r.attempts < MaxInterleavedPolls
                             THEN 1 ELSE MaxPollAttempts),
            "timer", NoData)

\* await signMessageAsync({ message }) settles.
SignReturn(r) ==
  /\ r.pc = "sign"
  /\ \E res \in {"ok", "threw"} :
       Resume(r, AfterSignature(r, res), res, NoData)

\* await fetch(...) and await response.json() of the wallet-connector path
\* settle: a 2xx with its body, a non-2xx, or one of the two threw.
FetchReturn(r) ==
  /\ r.pc = "fetch"
  /\ \/ \E data \in Responses : Resume(r, BrowserVerified(r, "ok", data), "ok", data)
     \/ \E status \in {"non2xx", "threw"} :
          Resume(r, BrowserVerified(r, status, NoData), status, NoData)

\* ------------------------------------------------------------- signOut
\* Faulty variant of SignOutDisconnects: the environment is not looked at.
SignOutDisconnectsAnyMode == isConnected

\* if (!isMiniapp && isConnected) disconnect();
SignOutDisconnects == ~isMiniapp /\ isConnected

\* The caller invokes signOut: disconnect() in browser mode when connected,
\* then the state is reset.
SignOut ==
  /\ EffectsFlushed
  /\ authState' = SignOutAuthState
  /\ lastOp' = [StepOp EXCEPT !.op = "signOut", !.disconnect = SignOutDisconnects]
  /\ hist' = "none"
  /\ Reschedule
  /\ UNCHANGED <<hasAutoSignedIn, inv, lastAuto>>
  /\ UNCHANGED Wallet

\* ------------------------------------------------- wallet connector, refs
\* The connector reports a connection (through the connector UI or otherwise).
WalletConnect ==
  /\ EffectsFlushed
  /\ \E a \in WalletAddresses :
       /\ address # a
       /\ address' = a
  /\ isConnected' = TRUE
  /\ lastOp' = StepOp
  /\ UNCHANGED <<authState, isMiniapp, appKitOpen, addressRef, hasAutoSignedIn,
                 effectPending, inv, hist, lastAuto>>

\* The connector reports the wallet disconnected (after disconnect() or on its own).
WalletDisconnect ==
  /\ EffectsFlushed
  /\ isConnected
  /\ address' = Null
  /\ isConnected' = FALSE
  /\ lastOp' = StepOp
  /\ UNCHANGED <<authState, isMiniapp, appKitOpen, addressRef, hasAutoSignedIn,
                 effectPending, inv, hist, lastAuto>>

\* useEffect(() => { addressRef.current = address }, [address])
SyncAddressRef ==
  /\ addressRef # address
  /\ addressRef' = address
  /\ lastOp' = StepOp
  /\ UNCHANGED <<authState, isMiniapp, appKitOpen, address, isConnected, hasAutoSignedIn,
                 effectPending, inv, hist, lastAuto>>

\* ------------------------------------------------------- specification
Init ==
  /\ authState = InitialAuthState
  /\ isMiniapp \in BOOLEAN
  /\ appKitOpen \in BOOLEAN
  /\ \E a \in WalletAddresses \cup {Null} :
       /\ address = a
       /\ addressRef = a          \* useRef(address)
       /\ isConnected = (a # Null)
  /\ hasAutoSignedIn = FALSE
  /\ effectPending = TRUE
  /\ inv = EmptyBag
  /\ lastOp = StepOp
  /\ hist = "none"
  /\ lastAuto = "none"

Next ==
  \/ SignIn
  \/ AutoSignInEffect
  \/ \E r \in InFlight : AccountsReturn(r)
  \/ \E r \in InFlight : HostSignInReturn(r)
  \/ \E r \in InFlight : EmbFetchReturn(r)
  \/ \E r \in InFlight : PollTick(r)
  \/ \E r \in InFlight : SignReturn(r)
  \/ \E r \in InFlight : FetchReturn(r)
  \/ SignOut
  \/ WalletConnect
  \/ WalletDisconnect
  \/ SyncAddressRef

Spec == Init /\ [][Next]_vars

TypeOK ==
  /\ authState.isLoading \in BOOLEAN
  /\ \A r \in InFlight : r.attempts \in 0..MaxPollAttempts
  /\ BagCardinality(inv) <= MaxInFlight

\* ---------------------------------------------------------------- claims
IsSettlement == lastOp.op \in {"resolve", "reject"}

\* The step starts an auto-invoked signIn.
AutoStartStep == lastOp'.op = "start" /\ lastOp'.auto

\* C1 as stated: the token is non-absent if and only if the latest signIn to
\* settle resolved and no signOut has come after it.
C1_TokenIffLatestSettlementResolved ==
  (authState.token # Null) <=> (hist = "ok")

\* C1 amended: the token is non-absent if and only if some signIn has resolved
\* since the last signOut (or since mount); a later rejection does not clear it.
C1_TokenIffResolvedSinceSignOut ==
  (authState.token # Null) <=> (hist # "none")

\* A signIn rejected after an earlier one resolved; the token is kept.
C1_Witness ==
  lastOp.op = "reject" /\ hist = "fail" /\ authState.token # Null

\* C2 as stated: whenever a signIn invocation is in flight, isLoading is true.
C2_LoadingWhileInFlight ==
  AnyInFlight => authState.isLoading

\* C2 amended: isLoading is true once a signIn invocation has started and is
\* suspended, and it becomes false only by a signOut call or by the settlement
\* of a signIn invocation (which may be another one than the one in flight).
C2_LoadingUntilSignOutOrSettlement ==
  [][/\ (lastOp'.op = "start" => authState'.isLoading)
     /\ (authState.isLoading /\ ~authState'.isLoading
           => lastOp'.op \in {"signOut", "resolve", "reject"})]_vars

\* Two invocations are in flight and isLoading is true.
C2_Witness ==
  BagCardinality(inv) = 2 /\ authState.isLoading /\ lastOp.op = "start"

\* C3: when no signIn invocation is in flight, isLoading is false.
C3_NotLoadingWhenNoneInFlight ==
  ~AnyInFlight => ~authState.isLoading

\* The last invocation in flight has just rejected.
C3_Witness ==
  ~AnyInFlight /\ lastOp.op = "reject" /\ ~authState.isLoading

\* C4: right after a signOut call AuthState equals the initial state.
C4_SignOutResets ==
  lastOp.op = "signOut" => authState = InitialAuthState

\* signOut was called while a signIn was in flight.
C4_Witness ==
  lastOp.op = "signOut" /\ AnyInFlight /\ authState = InitialAuthState

\* C5 as stated: the effect starts an auto-invoked signIn once per mount and
\* never a second one.
C5_NoSecondAutoSignIn ==
  [][AutoStartStep => lastAuto = "none"]_vars

\* C5 amended: in embedded mode the effect auto-invokes signIn at mount, and it
\* starts a further one only after the latest auto-invoked signIn has rejected,
\* never while one is in flight or after one has resolved.
C5_AutoSignInOnlyAfterRejection ==
  /\ [](isMiniapp /\ ~effectPending => lastAuto # "none")
  /\ [][AutoStartStep => lastAuto \in {"none", "rejected"}]_vars

\* The effect has started an auto-invoked signIn.
C5_Witness ==
  isMiniapp /\ lastOp.op = "start" /\ lastOp.auto /\ lastAuto = "inflight"

\* C6: the guard flag is set exactly by the effect's start of an auto-invoked
\* signIn, cleared only by the rejection of an auto-invoked signIn, and the
\* effect starts none while an auto-invoked signIn is in flight.
C6_GuardFlag ==
  [][/\ (AutoStartStep => hasAutoSignedIn' /\ \A r \in InFlight : ~r.auto)
     /\ (~hasAutoSignedIn /\ hasAutoSignedIn' => AutoStartStep)
     /\ (hasAutoSignedIn /\ ~hasAutoSignedIn'
           => lastOp'.op = "reject" /\ lastOp'.auto)]_vars

\* An auto-invoked signIn has rejected and cleared the flag.
C6_Witness ==
  lastOp.op = "reject" /\ lastOp.auto /\ ~hasAutoSignedIn

\* C7 as stated: an invocation whose verification call returned a non-2xx
\* status, in the embedded or in the browser path, rejects with
\* 'Authentication failed' and leaves isLoading false.
C7_Non2xxRejects ==
  IsSettlement /\ (lastOp.embErr = "non2xx" \/ lastOp.input = "non2xx")
    => lastOp.op = "reject" /\ lastOp.err = "AuthenticationFailed"
       /\ ~authState.isLoading

\* C7 amended: a non-2xx status of the wallet-connector path's verification
\* call rejects the invocation with 'Authentication failed' and leaves
\* isLoading false; a non-2xx status of the embedded path's call is caught and
\* never settles the invocation with that error.
C7_BrowserNon2xxRejects ==
  /\ lastOp.from = "fetch" /\ lastOp.input = "non2xx"
       => lastOp.op = "reject" /\ lastOp.err = "AuthenticationFailed"
          /\ ~authState.isLoading
  /\ lastOp.from = "embFetch" /\ lastOp.input = "non2xx"
       => lastOp.err # "AuthenticationFailed"

\* The wallet-connector path's verification call returned a non-2xx status.
C7_Witness ==
  lastOp.from = "fetch" /\ lastOp.input = "non2xx" /\ lastOp.op = "reject"

\* The wallet-connector path's pure result, spelled out: token = response
\* token if provided, else the wallet signature; userData = the address
\* overlaid with the response's fields.
IsBrowserResult(a, addr, data) ==
  /\ a.token = (IF data.token # Undef THEN data.token ELSE WalletSignature)
  /\ a.userData.set
  /\ a.userData.address = (IF data.address # Undef THEN data.address ELSE addr)
  /\ a.userData.fid = data.fid
  /\ a.userData.token = data.token
  /\ ~a.isLoading

\* Errors thrown by the wallet-connector path before its first await.
ConnectorErrors == {"WalletNotAvailable", "WalletConnectionFailed", "AddressNotAvailable"}

\* C8: an invocation whose embedded path failed goes on in the wallet-connector
\* path, and when it resolves there AuthState is what the browser path yields
\* for the same address, signature and response.
C8_FallbackAsBrowserPath ==
  /\ \A r \in InFlight : r.embErr # "none" => r.pc \in {"poll", "sign", "fetch"}
  /\ IsSettlement /\ lastOp.from \in {"hostSignIn", "embFetch"} /\ lastOp.input # "ok"
       => lastOp.op = "reject" /\ lastOp.err \in ConnectorErrors
  /\ lastOp.op = "resolve" /\ lastOp.from = "fetch"
       => /\ authState = BrowserAuthState(lastOp.address, WalletSignature, lastOp.data)
          /\ IsBrowserResult(authState, lastOp.address, lastOp.data)
          /\ lastOp.address # Null

\* An invocation has resolved in the wallet-connector path after its embedded
\* path failed.
C8_Witness ==
  lastOp.op = "resolve" /\ lastOp.from = "fetch" /\ lastOp.embErr # "none"

\* C9 as stated: after every signIn that resolves, isAuthenticated is true.
C9_AuthenticatedAfterResolve ==
  lastOp.op = "resolve" => isAuthenticated

\* C9 amended: after every signIn that resolves the token is present, so
\* isAuthenticated is true in embedded mode, and in browser mode it is true
\* exactly when the wallet is connected at that moment.
C9_AuthenticatedAfterResolveIfConnected ==
  lastOp.op = "resolve"
    => authState.token # Null /\ (isAuthenticated <=> (isMiniapp \/ isConnected))

\* A signIn resolved in browser mode with the wallet connected.
C9_Witness ==
  lastOp.op = "resolve" /\ ~isMiniapp /\ isConnected /\ isAuthenticated

\* Verification calls made by the embedded path of an invocation.
EmbeddedCalls(embErr) == IF embErr \in {"non2xx", "threw"} THEN 1 ELSE 0

\* C10: the polling loop gives up with 'wallet connection failed' after exactly
\* 100 polls that saw no address, never earlier and never later, and the
\* invocation has then requested no signature and made no verification call in
\* its wallet-connector path.
C10_PollingBound ==
  /\ \A r \in InFlight :
       r.pc = "poll" => /\ r.attempts < MaxPollAttempts
                        /\ r.currentAddress = Null
                        /\ r.signRequests = 0
                        /\ r.backendCalls = EmbeddedCalls(r.embErr)
  /\ lastOp.err = "WalletConnectionFailed"
       => /\ lastOp.op = "reject"
          /\ lastOp.from = "poll"
          /\ lastOp.attempts = MaxPollAttempts
          /\ lastOp.signRequests = 0
          /\ lastOp.backendCalls = EmbeddedCalls(lastOp.embErr)
  /\ lastOp.op = "reject" /\ lastOp.from = "poll"
       => lastOp.err = "WalletConnectionFailed"

\* The polling loop has given up after its 100th poll.
C10_Witness ==
  /\ lastOp.op = "reject" /\ lastOp.err = "WalletConnectionFailed"
  /\ lastOp.attempts = MaxPollAttempts

\* Errors signIn can throw to its caller: all are raised in the
\* wallet-connector path.
TerminalErrors ==
  {"WalletNotAvailable", "WalletConnectionFailed", "AddressNotAvailable",
   "SignatureRejected", "AuthenticationFailed", "Threw"}

\* C11: every failure of the wallet-connector path (connector UI unavailable,
\* polling budget exceeded, signature rejected, non-2xx, thrown network error)
\* rejects the invocation with its error, and isLoading is false once it has.
C11_FailuresReRaised ==
  /\ lastOp.op = "reject" => ~authState.isLoading /\ lastOp.err \in TerminalErrors
  /\ IsSettlement /\ lastOp.from = "sign" /\ lastOp.input = "threw"
       => lastOp.op = "reject" /\ lastOp.err = "SignatureRejected"
  /\ IsSettlement /\ lastOp.from = "fetch" /\ lastOp.input = "non2xx"
       => lastOp.op = "reject" /\ lastOp.err = "AuthenticationFailed"
  /\ IsSettlement /\ lastOp.from = "fetch" /\ lastOp.input = "threw"
       => lastOp.op = "reject" /\ lastOp.err = "Threw"
  /\ IsSettlement /\ lastOp.from = "poll"
       => lastOp.op = "reject" /\ lastOp.err = "WalletConnectionFailed"
  /\ IsSettlement /\ lastOp.from \in {"start", "hostSignIn", "embFetch"} /\ ~appKitOpen
       /\ lastOp.op = "reject"
       => lastOp.err = "WalletNotAvailable"
  /\ \A r \in InFlight :
       /\ r.pc = "sign" => AfterSignature(r, "threw").kind = "reject"
       /\ r.pc = "fetch" => \A status \in {"non2xx", "threw"} :
                              BrowserVerified(r, status, NoData).kind = "reject"
       /\ r.pc = "poll"
            => PollTest([r EXCEPT !.attempts = MaxPollAttempts]).kind = "reject"

\* A signature request was rejected and signIn threw with isLoading false.
C11_Witness ==
  /\ lastOp.op = "reject" /\ lastOp.from = "sign"
  /\ lastOp.err = "SignatureRejected" /\ ~authState.isLoading

\* C12: no error of the embedded path is thrown to the caller: the account
\* request never settles the invocation, a failed host sign-in or embedded
\* verification settles it only through an error of the wallet-connector path,
\* and after such a failure a 2xx answer in the wallet-connector path resolves it.
C12_EmbeddedErrorsAbsorbed ==
  /\ IsSettlement => lastOp.from # "accounts"
  /\ IsSettlement /\ lastOp.from \in {"hostSignIn", "embFetch"} /\ lastOp.input # "ok"
       => lastOp.op = "reject" /\ lastOp.err \in ConnectorErrors
  /\ lastOp.op = "reject" /\ lastOp.err \in {"AuthenticationFailed", "Threw"}
       => lastOp.from = "fetch"
  /\ lastOp.op = "reject" /\ lastOp.err = "SignatureRejected" => lastOp.from = "sign"
  /\ IsSettlement /\ lastOp.embErr # "none" /\ lastOp.from = "fetch" /\ lastOp.input = "ok"
       => lastOp.op = "resolve" /\ lastOp.err = "none" /\ authState.token # Null
  /\ \A r \in InFlight : r.pc \in {"accounts", "hostSignIn", "embFetch"} => r.embErr = "none"

\* An invocation whose embedded verification failed has rejected with the
\* wallet-connector path's signature error.
C12_Witness ==
  /\ lastOp.op = "reject" /\ lastOp.embErr = "non2xx"
  /\ lastOp.err = "SignatureRejected"

\* C13: userData is an object exactly when the token is present, and userData
\* changes only in a transition that writes the token as well: a resolving
\* signIn or a signOut.
C13_UserDataWithToken ==
  /\ [](authState.userData.set <=> authState.token # Null)
  /\ [][authState'.userData # authState.userData
          => /\ lastOp'.op \in {"resolve", "signOut"}
             /\ (lastOp'.op = "signOut" => authState'.token = Null)
             /\ (lastOp'.op = "resolve" => authState'.token # Null)]_vars

\* A signOut has cleared the userData and the token of an earlier sign-in
\* while another invocation is in flight.
C13_Witness ==
  /\ lastOp.op = "signOut" /\ AnyInFlight
  /\ ~authState.userData.set /\ authState.token = Null
  /\ lastAuto = "ok"

\* The embedded path's pure result, spelled out: token = the host signature;
\* userData = {fid: data.fid, address: walletAddress || data.address}.
IsEmbeddedResult(a, walletAddress, data) ==
  /\ a.token = HostSignature
  /\ a.userData.set
  /\ a.userData.fid = data.fid
  /\ a.userData.address = (IF walletAddress # Null THEN walletAddress ELSE data.address)
  /\ a.userData.token = Undef
  /\ ~a.isLoading

\* C14: overlapping signIn invocations do not cancel each other (a step changes
\* the position of at most one invocation and leaves the others as they are, a
\* start removes none), and a resolving invocation overwrites token and
\* userData with its own result whatever another invocation wrote before.
C14_LastWriteWins ==
  [][/\ \E r \in InFlight \cup {IdleRec} : (inv (-) SetToBag({r})) \sqsubseteq inv'
     /\ BagCardinality(inv') >= BagCardinality(inv) - 1
     /\ (lastOp'.op = "start" => inv \sqsubseteq inv')
     /\ (lastOp'.op = "resolve" /\ lastOp'.from = "fetch"
           => IsBrowserResult(authState', lastOp'.address, lastOp'.data))
     /\ (lastOp'.op = "resolve" /\ lastOp'.from = "embFetch"
           => IsEmbeddedResult(authState', lastOp'.walletAddress, lastOp'.data))
     /\ (lastOp'.op = "resolve" => lastOp'.from \in {"fetch", "embFetch"})]_vars

\* Of two overlapping invocations one has resolved in the wallet-connector
\* path, writing its token, while the other is still in flight.
C14_Witness ==
  /\ lastOp.op = "resolve" /\ lastOp.from = "fetch" /\ AnyInFlight
  /\ authState.token = BrowserToken(lastOp.data, WalletSignature)
  /\ hist = "ok"

\* C15: an invocation whose embedded path succeeds resolves there with the
\* host signature as token, having opened no connector UI, requested no wallet
\* signature and made exactly one verification call; in embedded mode only an
\* invocation whose embedded path failed is in the wallet-connector path or
\* opens the connector UI.
C15_EmbeddedSuccessReturns ==
  /\ IsSettlement /\ lastOp.from = "embFetch" /\ lastOp.input = "ok"
       => /\ lastOp.op = "resolve"
          /\ authState.token = HostSignature
          /\ IsEmbeddedResult(authState, lastOp.walletAddress, lastOp.data)
          /\ ~lastOp.opened
          /\ lastOp.embErr = "none"
          /\ lastOp.signRequests = 0
          /\ lastOp.backendCalls = 1
          /\ lastOp.address = Null
  /\ \A r \in InFlight :
       /\ r.pc \in {"accounts", "hostSignIn", "embFetch"}
            => r.signRequests = 0 /\ r.embErr = "none" /\ r.currentAddress = Null
       /\ r.pc = "embFetch"
            => /\ r.backendCalls = 1
               /\ \A data \in Responses : EmbeddedVerified(r, "ok", data).kind = "resolve"
       /\ isMiniapp /\ r.pc \in {"poll", "sign", "fetch"} => r.embErr # "none"
  /\ lastOp.opened /\ isMiniapp
       => \/ lastOp.op = "reject" /\ lastOp.embErr # "none"
          \/ \E r \in InFlight : r.embErr # "none"

\* The embedded path has succeeded: one verification call, no wallet signature.
C15_Witness ==
  /\ lastOp.op = "resolve" /\ lastOp.from = "embFetch"
  /\ authState.token = HostSignature
  /\ lastOp.backendCalls = 1 /\ lastOp.signRequests = 0

\* C16: a poll that finds an address in addressRef ends the loop with it: the
\* invocation goes on to request the signature with the address addressRef
\* holds at that poll, whatever it read when it entered the path, and keeps
\* that address for the verification call and the userData it writes.
C16_PollReadsLatestAddress ==
  /\ [](/\ lastOp.op = "poll"
             => /\ addressRef # Null
                /\ \E r \in InFlight : r.pc = "sign" /\ r.currentAddress = addressRef
         /\ \A r \in InFlight :
              /\ r.pc = "poll" => r.currentAddress = Null
              /\ r.pc \in {"sign", "fetch"} => r.currentAddress \in WalletAddresses)
  /\ [][\A r \in InFlight :
          /\ r.pc = "poll" /\ CopiesIn(r, inv') < CopiesIn(r, inv) /\ addressRef # Null
               => /\ lastOp'.op = "poll"
                  /\ LET r2 == [r EXCEPT !.pc = "sign", !.currentAddress = addressRef,
                                         !.attempts = 0,
                                         !.signRequests = r.signRequests + 1]
                     IN CopiesIn(r2, inv') > CopiesIn(r2, inv)
          /\ r.pc = "sign" /\ CopiesIn(r, inv') < CopiesIn(r, inv) /\ lastOp'.op = "step"
               => LET r2 == [r EXCEPT !.pc = "fetch",
                                      !.backendCalls = r.backendCalls + 1]
                  IN CopiesIn(r2, inv') > CopiesIn(r2, inv)
          /\ r.pc = "fetch" /\ CopiesIn(r, inv') < CopiesIn(r, inv)
               /\ lastOp'.op = "resolve"
               => lastOp'.address = r.currentAddress]_vars

\* A polling invocation has found the address that the wallet exposed after
\* the invocation had started, and has requested the signature with it.
C16_Witness ==
  /\ lastOp.op = "poll" /\ addressRef \in WalletAddresses
  /\ \E r \in InFlight : r.pc = "sign" /\ r.currentAddress = addressRef

\* C17: signOut calls disconnect() exactly when the hook is in browser mode and
\* the wallet is connected; in embedded mode it never does, whichever path
\* signed the user in.
C17_SignOutDisconnect ==
  /\ lastOp.op = "signOut"
       => (lastOp.disconnect <=> (~isMiniapp /\ isConnected))
  /\ lastOp.disconnect => lastOp.op = "signOut" /\ ~isMiniapp
  /\ isMiniapp => ~lastOp.disconnect

\* signOut has called disconnect() in browser mode with the wallet connected.
C17_Witness ==
  lastOp.op = "signOut" /\ lastOp.disconnect /\ ~isMiniapp /\ isConnected

\* An external call awaited by invocation r returns or fails.
Return(r) ==
  \/ AccountsReturn(r)
  \/ HostSignInReturn(r)
  \/ EmbFetchReturn(r)
  \/ PollTick(r)
  \/ SignReturn(r)
  \/ FetchReturn(r)

\* The caller invokes signIn while no invocation of the caller is in flight.
CallerSignIn == (\A r \in InFlight : r.auto) /\ SignIn

\* The hook with a caller that has one signIn of its own in flight at a time;
\* it may overlap with the invocation the effect started.
FairNext ==
  \/ CallerSignIn
  \/ AutoSignInEffect
  \/ \E r \in InFlight : Return(r)
  \/ SignOut
  \/ WalletConnect
  \/ WalletDisconnect
  \/ SyncAddressRef

\* Pending effects run, and every external call an invocation awaits returns
\* or fails, for the effect's invocation and for the caller's.
FairSpec ==
  /\ Init /\ [][FairNext]_vars
  /\ WF_vars(AutoSignInEffect)
  /\ WF_vars(SyncAddressRef)
  /\ SF_vars(\E r \in InFlight : r.auto /\ Return(r))
  /\ SF_vars(\E r \in InFlight : ~r.auto /\ Return(r))

\* C18: a signIn invocation settles once, as a success or as a rejection, and
\* it does settle when its external calls return: the invocation started by
\* the effect and the invocation of the caller each reach their settlement,
\* whatever signOut calls and wallet events come in between; no step but a
\* settlement ends an invocation, and a signOut leaves the invocations in
\* flight as they are.
C18_SignInSettles ==
  /\ (lastAuto = "inflight") ~> (lastAuto \in {"ok", "rejected"})
  /\ (\E r \in InFlight : ~r.auto)
       ~> (IsSettlement /\ ~lastOp.auto /\ lastOp.from # "start")
  /\ [][/\ (BagCardinality(inv') < BagCardinality(inv)
              => IsSettlement' /\ lastOp'.from # "start"
                 /\ BagCardinality(inv') = BagCardinality(inv) - 1)
        /\ (IsSettlement' /\ lastOp'.from # "start"
              => BagCardinality(inv') = BagCardinality(inv) - 1)
        /\ (lastOp'.op = "signOut" => inv' = inv)]_vars

\* A signOut was called while the invocation started by the effect was polling.
C18_Witness ==
  /\ lastOp.op = "signOut" /\ lastAuto = "inflight"
  /\ \E r \in InFlight : r.auto /\ r.pc = "poll"

\* C19: a rejecting signIn changes isLoading only: the step that rejects leaves
\* token and userData as they were, a token of an earlier sign-in included.
C19_RejectKeepsToken ==
  [][lastOp'.op = "reject"
       => /\ authState'.token = authState.token
          /\ authState'.userData = authState.userData
          /\ ~authState'.isLoading]_vars

\* A signIn has rejected with the token and userData of an earlier sign-in
\* still held.
C19_Witness ==
  /\ lastOp.op = "reject" /\ ~authState.isLoading
  /\ authState.token # Null /\ authState.userData.set

\* C20: the token becomes a present value only in the step of an invocation
\* that resolves on a 2xx answer to a verification call it made; no invocation
\* resolves on another answer, and an invocation awaits the wallet-connector
\* path's verification call only with an address and after its signature
\* request.
C20_TokenOnlyAfterVerification ==
  /\ [](lastOp.op = "resolve"
          => /\ lastOp.input = "ok"
             /\ lastOp.from \in {"fetch", "embFetch"}
             /\ lastOp.backendCalls >= 1
             /\ authState.token # Null)
  /\ [](lastOp.op = "resolve" /\ lastOp.from = "fetch"
          => /\ lastOp.address \in WalletAddresses
             /\ lastOp.signRequests = 1
             /\ lastOp.backendCalls = EmbeddedCalls(lastOp.embErr) + 1)
  /\ [](\A r \in InFlight :
          /\ r.pc = "fetch"
               => /\ r.currentAddress \in WalletAddresses
                  /\ r.signRequests = 1
                  /\ r.backendCalls = EmbeddedCalls(r.embErr) + 1
          /\ r.pc \in {"poll", "sign"} => r.backendCalls = EmbeddedCalls(r.embErr)
          /\ r.pc = "sign" => r.signRequests = 1
          /\ r.pc = "embFetch" => r.backendCalls = 1
          /\ r.pc \in {"accounts", "hostSignIn"} => r.backendCalls = 0)
  /\ [][authState'.token # authState.token /\ authState'.token # Null
          => lastOp'.op = "resolve" /\ lastOp'.input = "ok"]_vars

\* The wallet-connector path has written a token after its one signature
\* request and a 2xx answer.
C20_Witness ==
  /\ lastOp.op = "resolve" /\ lastOp.from = "fetch" /\ lastOp.input = "ok"
  /\ lastOp.signRequests = 1 /\ authState.token # Null
  /\ lastOp.embErr = "none"

====
